---- MODULE Spec2Model ----
(***************************************************************************)
(* A model of src/chap02/input_system/input.c, the input system used by    *)
(* LeX-generated lexical analyzers.                                        *)
(*                                                                         *)
(* Pointers into Start_buf are modelled as offsets 0..BUFSIZE from         *)
(* Start_buf (END is offset BUFSIZE); the NULL value of pMark is NULL.     *)
(* MAXLOOK and MAXLEN are scaled down from 16 and 1024, keeping            *)
(* 2*MAXLOOK < MAXLEN, so that BUFSIZE div MAXLEN = 3 as in the source.    *)
(* The globals of input.c are the variables of the same name; the other    *)
(* variables are the environment (the two byte streams and their read      *)
(* positions, the descriptors passed to close()), the fate of the process  *)
(* (status: "run", or dead by ferr(), by a crash in memcpy, or by an       *)
(* access outside Start_buf) and the                                       *)
(* history of the calls (op, arg, ret, outcome, did, lastCopy, lastNeed,    *)
(* coff, nlOff, trace, advOnly, calls, pb, phase, lex, snap), which no     *)
(* function of input.c reads.                                              *)
(* read() never fails; while the stream lasts it delivers one byte, MAXLEN *)
(* bytes or the whole request (ReadSizes), so short reads are covered.     *)
(***************************************************************************)
EXTENDS Integers, Sequences, FiniteSets, TLC

\* ------------------------------------------------------------------ sizes
STDIN   == 0
MAXLOOK == 2
MAXLEN  == 5
BUFSIZE == (3 * MAXLEN) + (2 * MAXLOOK)
END     == BUFSIZE
NULL    == 0 - 1

\* bounds of the model
MaxStream == 18     \* length of the long streams
ShortLen  == 5      \* length of the short stream
MaxPush   == 2      \* largest n passed to ii_pusback
MaxDrop   == 1      \* ii_pusback is not called once Lineno is -MaxDrop
MaxTrace  == 8      \* recorded prefix of an advance-only run
MaxCalls  == 6      \* calls made by the scanner in one run
MaxLong   == 8      \* calls made in a run of reads and flushes alone

NL == 10
Min(a, b) == IF a < b THEN a ELSE b

\* ------------------------------------------------------------ environment
\* The bytes of the streams: "a\n", a zero byte, "bc\nd", repeated; the file
\* holds the same bytes from the fourth on.
Pattern == <<97, 10, 0, 98, 99, 10, 100>>
StdinData(i) == Pattern[(i % 7) + 1]
FileData(i)  == Pattern[((i + 3) % 7) + 1]
FILEFD == 3
FILEFD2 == 4

VARIABLES
    buf, End_buf, Next, sMark, eMark, pMark, pLineno, pLength,
    Input_file, Lineno, Mline, Termchar, Eof_read, been_called,
    stdinLen, stdinPos, filePos, closed, status,
    op, arg, ret, outcome, did, coff, nlOff, trace, advOnly, calls,
    pb, phase, lex, snap, lastCopy, lastNeed

vars == <<buf, End_buf, Next, sMark, eMark, pMark, pLineno, pLength,
          Input_file, Lineno, Mline, Termchar, Eof_read, been_called,
          stdinLen, stdinPos, filePos, closed, status,
          op, arg, ret, outcome, did, coff, nlOff, trace, advOnly, calls,
          pb, phase, lex, snap, lastCopy, lastNeed>>

\* The stream the current handle reads, its length and its read position.
SrcByte(fd, i) == IF fd = STDIN THEN StdinData(i) ELSE FileData(i)
SrcLen(fd, slen) == IF fd = STDIN THEN slen ELSE MaxStream

\* need of a call in which ii_fillbuf did not run
NoNeed == 0 - 1

\* ------------------------------------------------------- the C state as a
\* record, so that the functions of input.c compose as they call each other
Cur == [buf |-> buf, End_buf |-> End_buf, Next |-> Next, sMark |-> sMark,
        eMark |-> eMark, pMark |-> pMark, pLineno |-> pLineno,
        pLength |-> pLength, Input_file |-> Input_file, Lineno |-> Lineno,
        Mline |-> Mline, Termchar |-> Termchar, Eof_read |-> Eof_read,
        been_called |-> been_called, stdinLen |-> stdinLen,
        stdinPos |-> stdinPos, filePos |-> filePos, closed |-> closed,
        status |-> status,
        rv |-> 0, did |-> "none", outcome |-> "ok",
        copy_amount |-> 0, need |-> NoNeed]

Pos(s)   == IF s.Input_file = STDIN THEN s.stdinPos ELSE s.filePos
Avail(s) == SrcLen(s.Input_file, s.stdinLen) - Pos(s)

DANGER(s) == s.End_buf - MAXLOOK
NO_MORE_CHARS(s) == s.Eof_read /\ s.Next >= s.End_buf

\* ii_mark_start: rv is the returned pointer
MarkStart(s) == [s EXCEPT !.Mline = s.Lineno, !.eMark = s.Next,
                          !.sMark = s.Next, !.rv = s.Next]

\* ii_mark_end
MarkEnd(s) == [s EXCEPT !.Mline = s.Lineno, !.eMark = s.Next, !.rv = s.Next]

\* ii_move_start: NULL when refused
MoveStart(s) ==
    IF s.sMark >= s.eMark THEN [s EXCEPT !.rv = NULL]
    ELSE [s EXCEPT !.sMark = s.sMark + 1, !.rv = s.sMark + 1]

\* ii_to_mark
ToMark(s) == [s EXCEPT !.Lineno = s.Mline, !.Next = s.eMark, !.rv = s.eMark]

\* ii_mark_prev
MarkPrev(s) == [s EXCEPT !.pMark = s.sMark, !.pLineno = s.Lineno,
                         !.pLength = s.eMark - s.sMark, !.rv = s.sMark]

\* read(Input_file, starting_at, need): the source delivers at most k bytes
\* this time; 0 only at the end of the stream.
Got(s, need, k) == Min(Min(need, k), Avail(s))

\* ii_fillbuf(starting_at): rv is the number of bytes read
Fillbuf(s, at, k) ==
    LET need == ((END - at) \div MAXLEN) * MAXLEN
        got  == Got(s, need, k)
        p    == Pos(s)
    IN  IF need = 0 THEN [s EXCEPT !.rv = 0, !.need = need]
        ELSE [s EXCEPT
                !.need = need,
                !.buf = [i \in 0..(BUFSIZE - 1) |->
                           IF i >= at /\ i < at + got
                           THEN SrcByte(s.Input_file, p + (i - at))
                           ELSE s.buf[i]],
                !.End_buf = at + got,
                !.Eof_read = (s.Eof_read \/ got = 0),
                !.stdinPos = IF s.Input_file = STDIN THEN p + got ELSE @,
                !.filePos  = IF s.Input_file = STDIN THEN @ ELSE p + got,
                !.rv = got]

\* memcpy(Start_buf, left_edge, copy_amount).  The regions overlap when
\* 0 < left_edge < copy_amount, which memcpy leaves undefined: a copy in
\* ascending order gives what memmove gives, a copy in descending order
\* reads bytes it has already overwritten.
RECURSIVE BackVal(_, _, _, _)
BackVal(b, src, n, i) ==
    IF src > 0 /\ src + i < n THEN BackVal(b, src, n, src + i) ELSE b[src + i]

Memcpy(b, src, n, dir) ==
    [i \in 0..(BUFSIZE - 1) |->
        IF i < n
        THEN (IF dir = "fwd" THEN b[src + i] ELSE BackVal(b, src, n, i))
        ELSE b[i]]

\* ferr(): report and terminate the process
Ferr(s) == [s EXCEPT !.status = "ferr"]

\* The part of ii_flush after the left edge is settled: copy, fill, rebase.
\* A negative copy_amount reaches memcpy as a huge size_t: the process dies.
Compact(s, left_edge, shift_amount, k, dir, what) ==
    LET copy_amount == s.End_buf - left_edge
    IN  IF copy_amount < 0
        THEN [s EXCEPT !.status = "crash", !.did = what,
                       !.copy_amount = copy_amount]
        ELSE
          LET c == [s EXCEPT !.buf = Memcpy(s.buf, left_edge, copy_amount, dir),
                             !.copy_amount = copy_amount]
              f == Fillbuf(c, copy_amount, k)
          IN  IF f.rv = 0 THEN [Ferr(f) EXCEPT !.did = what]
              ELSE [f EXCEPT
                      !.pMark = IF f.pMark # NULL THEN f.pMark - shift_amount
                                ELSE NULL,
                      !.sMark = f.sMark - shift_amount,
                      !.eMark = f.eMark - shift_amount,
                      !.Next  = f.Next - shift_amount,
                      !.did = what, !.rv = 1]

\* left_edge = pMark ? min(sMark, pMark) : sMark
LeftEdge(s) == IF s.pMark # NULL THEN Min(s.sMark, s.pMark) ELSE s.sMark

\* An ii_flush that compacts as soon as there is anything to free.
FlushAnyShift(s, force, k, dir) ==
    IF NO_MORE_CHARS(s) THEN [s EXCEPT !.rv = 0]
    ELSE IF s.Eof_read THEN [s EXCEPT !.rv = 1]
    ELSE IF s.Next >= DANGER(s) \/ force THEN
        LET left_edge == LeftEdge(s)
            shift_amount == left_edge
        IN  IF shift_amount < 1 THEN
                IF ~force THEN [s EXCEPT !.rv = 0 - 1]
                ELSE LET m == MarkPrev(MarkStart(s))
                     IN  Compact(m, m.sMark, m.sMark, k, dir, "reset")
            ELSE Compact(s, left_edge, shift_amount, k, dir, "compact")
    ELSE [s EXCEPT !.rv = 1]

\* ii_flush(force)
Flush(s, force, k, dir) ==
    IF NO_MORE_CHARS(s) THEN [s EXCEPT !.rv = 0]
    ELSE IF s.Eof_read THEN [s EXCEPT !.rv = 1]
    ELSE IF s.Next >= DANGER(s) \/ force THEN
        LET left_edge == LeftEdge(s)
            shift_amount == left_edge
        IN  IF shift_amount < MAXLEN THEN
                IF ~force THEN [s EXCEPT !.rv = 0 - 1]
                ELSE LET m == MarkPrev(MarkStart(s))
                     IN  Compact(m, m.sMark, m.sMark, k, dir, "reset")
            ELSE Compact(s, left_edge, shift_amount, k, dir, "compact")
    ELSE [s EXCEPT !.rv = 1]

\* ii_advance
Seed(s) ==
    IF s.been_called THEN s
    ELSE [s EXCEPT !.Next = END - 1, !.sMark = END - 1, !.eMark = END - 1,
                   !.buf = [s.buf EXCEPT ![END - 1] = NL],
                   !.Lineno = s.Lineno - 1, !.Mline = s.Mline - 1,
                   !.been_called = TRUE]

\* return (*Next++), after the line count; a Next outside the array is a
\* read out of bounds
Consume(s) ==
    IF s.Next < 0 \/ s.Next >= BUFSIZE
    THEN [s EXCEPT !.status = "oob", !.outcome = "fatal"]
    ELSE [s EXCEPT !.Lineno = IF s.buf[s.Next] = NL THEN s.Lineno + 1
                              ELSE s.Lineno,
                   !.Next = s.Next + 1,
                   !.rv = s.buf[s.Next], !.outcome = "byte"]

Advance(s, k, dir) ==
    LET s1 == Seed(s)
    IN  IF NO_MORE_CHARS(s1) THEN [s1 EXCEPT !.rv = 0, !.outcome = "eof"]
        ELSE IF ~s1.Eof_read
        THEN LET f == Flush(s1, FALSE, k, dir)
             IN  IF f.status # "run" THEN [f EXCEPT !.outcome = "fatal"]
                 ELSE IF f.rv < 0
                 THEN [f EXCEPT !.rv = 0 - 1, !.outcome = "refused"]
                 ELSE Consume(f)
        ELSE Consume(s1)

\* ii_look(n): EOF past the end of the input, 0 outside [Start_buf, End_buf)
EOF == 0 - 1

Look(s, n) ==
    LET p == s.Next + (n - 1)
    IN  IF s.Eof_read /\ p >= s.End_buf THEN [s EXCEPT !.rv = EOF]
        ELSE [s EXCEPT !.rv = IF p < 0 \/ p >= s.End_buf THEN 0
                              ELSE s.buf[p]]

\* ii_pusback(n): the number of positions the loop moves Next back
Moved(s, n) ==
    IF n > 0 /\ s.Next > s.sMark THEN Min(n, s.Next - s.sMark) ELSE 0

Pusback(s, n) ==
    LET m  == Moved(s, n)
        nx == s.Next - m
        dec == Cardinality({i \in nx..(s.Next - 1) :
                              s.buf[i] = NL \/ s.buf[i] = 0})
        ln == s.Lineno - dec
    IN  [s EXCEPT !.Next = nx, !.Lineno = ln,
                  !.eMark = IF nx < s.eMark THEN nx ELSE s.eMark,
                  !.Mline = IF nx < s.eMark THEN ln ELSE s.Mline,
                  !.rv = IF nx > s.sMark THEN 1 ELSE 0]

\* An ii_term that puts the '\0' without saving the byte it replaces.
TermNoSave(s) ==
    IF s.Next < 0 \/ s.Next >= BUFSIZE
    THEN [s EXCEPT !.status = "oob", !.outcome = "fatal"]
    ELSE [s EXCEPT !.Termchar = 0, !.buf = [s.buf EXCEPT ![s.Next] = 0]]

\* ii_term, ii_unterm: *Next with Next = END is outside Start_buf
Term(s) ==
    IF s.Next < 0 \/ s.Next >= BUFSIZE
    THEN [s EXCEPT !.status = "oob", !.outcome = "fatal"]
    ELSE [s EXCEPT !.Termchar = s.buf[s.Next],
                   !.buf = [s.buf EXCEPT ![s.Next] = 0]]

Unterm(s) ==
    IF s.Termchar # 0
    THEN IF s.Next < 0 \/ s.Next >= BUFSIZE
         THEN [s EXCEPT !.status = "oob", !.outcome = "fatal"]
         ELSE [s EXCEPT !.buf = [s.buf EXCEPT ![s.Next] = s.Termchar],
                        !.Termchar = 0]
    ELSE s

\* ii_input and ii_uninput end without a return statement: what the caller
\* reads as their value is whatever the last call left behind.
Junk == {0 - 1, 0}

\* ii_input
Input(s, k, dir, junk) ==
    IF s.Termchar # 0
    THEN LET u == Unterm(s)
         IN  IF u.status # "run" THEN u
             ELSE LET a == Advance(u, k, dir)
                  IN  IF a.status # "run" THEN a
                      ELSE LET t == Term(MarkEnd(a))
                           IN  IF t.status # "run" THEN t
                               ELSE [t EXCEPT !.rv = junk]
    ELSE LET a == Advance(s, k, dir)
         IN  IF a.status # "run" THEN a
             ELSE [MarkEnd(a) EXCEPT !.rv = junk]

\* ii_uninput(c): *Next = c when ii_pusback(1) says so
Unput(s, c) ==
    LET p == Pusback(s, 1)
    IN  IF p.rv # 0 THEN [p EXCEPT !.buf = [p.buf EXCEPT ![p.Next] = c]]
        ELSE p

Uninput(s, c, junk) ==
    IF s.Termchar # 0
    THEN LET u == Unterm(s)
         IN  IF u.status # "run" THEN u
             ELSE LET t == Term(Unput(u, c))
                  IN  IF t.status # "run" THEN t ELSE [t EXCEPT !.rv = junk]
    ELSE [Unput(s, c) EXCEPT !.rv = junk]

\* ii_flushbuf
Flushbuf(s, k, dir) ==
    LET u == IF s.Termchar # 0 THEN Unterm(s) ELSE s
    IN  IF u.status # "run" THEN u ELSE Flush(u, TRUE, k, dir)

\* An ii_newfile that re-initializes whether or not open() succeeded.
NewfileAlways(s, how) ==
    LET fd == IF how = "null" THEN STDIN
              ELSE IF how = "fail" THEN 0 - 1
              ELSE IF s.Input_file = FILEFD THEN FILEFD2 ELSE FILEFD
    IN  [s EXCEPT !.closed = s.closed \cup {s.Input_file},
                  !.Input_file = IF fd # 0 - 1 THEN fd ELSE @,
                  !.Eof_read = FALSE,
                  !.Next = END, !.sMark = END, !.eMark = END,
                  !.End_buf = END, !.Lineno = 1, !.Mline = 1,
                  !.filePos = IF fd = STDIN \/ fd = 0 - 1 THEN @ ELSE 0,
                  !.rv = fd]

\* ii_newfile(filename): how is NULL, a name that opens, or one that does
\* not.  open() returns the lowest free descriptor; 0, 1 and 2 are taken.
\* closed collects the descriptors passed to close().
Newfile(s, how) ==
    LET fd == IF how = "null" THEN STDIN
              ELSE IF how = "fail" THEN 0 - 1
              ELSE IF s.Input_file = FILEFD THEN FILEFD2 ELSE FILEFD
    IN  IF fd # 0 - 1
        THEN [s EXCEPT !.closed = IF s.Input_file # STDIN
                                  THEN s.closed \cup {s.Input_file}
                                  ELSE s.closed,
                       !.Input_file = fd, !.Eof_read = FALSE,
                       !.Next = END, !.sMark = END, !.eMark = END,
                       !.End_buf = END, !.Lineno = 1, !.Mline = 1,
                       !.filePos = IF fd = STDIN THEN @ ELSE 0,
                       !.rv = fd]
        ELSE [s EXCEPT !.rv = fd]

\* ------------------------------------------------------------- the steps
\* History: op, arg, ret and outcome are the last call, its argument, what
\* it returned and how it ended; did is the compaction it performed, with
\* lastCopy and lastNeed the copy_amount and the need it computed; coff is
\* the offset in the stream of the byte at Next, nlOff that of the pushed
\* newline; trace holds the returns of a run of ii_advance calls alone.
NoNl == 0 - 9
PushBytes == {120}
ReadSizes == {1, MAXLEN, BUFSIZE}
Dirs == {"fwd", "bwd"}

\* the byte of the current stream at logical offset o; the newline that the
\* first ii_advance pushes sits at offset nlOff
Logical(fd, nl, o) == IF o = nl THEN NL ELSE SrcByte(fd, o)

Set(r) ==
    /\ buf' = r.buf /\ End_buf' = r.End_buf /\ Next' = r.Next
    /\ sMark' = r.sMark /\ eMark' = r.eMark /\ pMark' = r.pMark
    /\ pLineno' = r.pLineno /\ pLength' = r.pLength
    /\ Input_file' = r.Input_file /\ Lineno' = r.Lineno /\ Mline' = r.Mline
    /\ Termchar' = r.Termchar /\ Eof_read' = r.Eof_read
    /\ been_called' = r.been_called /\ stdinLen' = r.stdinLen
    /\ stdinPos' = r.stdinPos /\ filePos' = r.filePos
    /\ closed' = r.closed
    /\ status' = r.status /\ ret' = r.rv /\ did' = r.did
    /\ outcome' = IF r.status # "run" THEN "fatal" ELSE r.outcome
    /\ lastCopy' = r.copy_amount /\ lastNeed' = r.need
    /\ calls' = calls - 1

\* a call is made while the process lives and the run is not over: calls
\* is the number of calls the run has left
Live == status = "run" /\ calls > 0

\* History of a pushback being read again: the bytes it crossed, the line
\* number before it, and how many ii_advance calls have followed it.
NoPb == [want |-> <<>>, line |-> 0, i |-> 0]

\* History of a lexeme being read: the ii_advance calls made since
\* ii_mark_start with no other call in between, and the bytes that were
\* left to read when it was called.
NoLex == [n |-> 0 - 1, left |-> 0]

\* the bytes not yet consumed: those in the buffer, those in the source and
\* the newline that the first ii_advance is to push
Left(s) == (s.End_buf - s.Next) + Avail(s) + (IF s.been_called THEN 0 ELSE 1)

\* History of a termination: the buffer, Next and the marks as ii_term
\* found them, and the ii_unterm calls that have followed it at once
\* (stage 1 after ii_term, 2 and 3 after the first and second ii_unterm).
NoSnap == [stage |-> 0, buf |-> <<>>, Next |-> 0, sMark |-> 0, eMark |-> 0,
           pMark |-> 0]

Other(name) ==
    /\ op' = name /\ advOnly' = FALSE /\ trace' = <<>>
    /\ pb' = NoPb /\ phase' = "idle" /\ arg' = 0 /\ lex' = NoLex
    /\ snap' = NoSnap

\* a forced flush called right after ii_advance returned -1
Forced == phase' = IF phase = "refused" THEN "forced" ELSE "idle"

Start(n) ==
    /\ buf = [i \in 0..(BUFSIZE - 1) |-> 0]
    /\ End_buf = END /\ Next = END /\ sMark = END /\ eMark = END
    /\ pMark = NULL /\ pLineno = 0 /\ pLength = 0
    /\ Input_file = STDIN /\ Lineno = 1 /\ Mline = 1 /\ Termchar = 0
    /\ Eof_read = FALSE /\ been_called = FALSE
    /\ stdinLen \in {ShortLen, MaxStream}
    /\ stdinPos = 0 /\ filePos = 0 /\ closed = {} /\ status = "run"
    /\ op = "init" /\ ret = 0 /\ outcome = "ok" /\ did = "none"
    /\ coff = 0 /\ nlOff = NoNl /\ trace = <<>> /\ advOnly = TRUE
    /\ calls = n /\ arg = 0 /\ pb = NoPb /\ phase = "idle" /\ lex = NoLex
    /\ snap = NoSnap /\ lastCopy = 0 /\ lastNeed = NoNeed

Init == Start(MaxCalls)
InitLong == Start(MaxLong)

ii_advance ==
    /\ Live
    /\ \E k \in ReadSizes, dir \in Dirs :
         LET r == Advance(Cur, k, dir)
             c0 == IF been_called THEN coff ELSE coff - 1
         IN  /\ Set(r)
             /\ op' = "advance"
             /\ coff' = IF r.outcome = "byte" /\ r.status = "run"
                        THEN c0 + 1 ELSE c0
             /\ nlOff' = IF been_called THEN nlOff ELSE coff - 1
             /\ advOnly' = advOnly /\ arg' = 0
             /\ pb' = IF pb.i < Len(pb.want) THEN [pb EXCEPT !.i = @ + 1]
                      ELSE NoPb
             /\ phase' = IF phase = "forced" THEN "retried"
                         ELSE IF r.outcome = "refused" /\ Avail(r) > 0
                         THEN "refused" ELSE "idle"
             /\ trace' = IF advOnly /\ Len(trace) < MaxTrace
                            /\ r.status = "run"
                         THEN Append(trace, r.rv) ELSE trace
             /\ lex' = IF lex.n >= 0 THEN [lex EXCEPT !.n = @ + 1] ELSE lex
             /\ snap' = NoSnap

ii_mark_start ==
    /\ Live
    /\ Set(MarkStart(Cur))
    /\ op' = "mark_start" /\ advOnly' = FALSE /\ trace' = <<>>
    /\ pb' = NoPb /\ phase' = "idle" /\ arg' = 0
    /\ lex' = [n |-> 0, left |-> Left(Cur)] /\ snap' = NoSnap
    /\ UNCHANGED <<coff, nlOff>>

ii_mark_end ==
    /\ Live
    /\ Set(MarkEnd(Cur))
    /\ op' = "mark_end" /\ advOnly' = FALSE /\ trace' = <<>>
    /\ pb' = NoPb /\ phase' = "idle" /\ arg' = 0
    /\ snap' = NoSnap
    /\ UNCHANGED <<coff, nlOff, lex>>

ii_move_start ==
    /\ Live
    /\ Set(MoveStart(Cur)) /\ Other("move_start")
    /\ UNCHANGED <<coff, nlOff>>

ii_to_mark ==
    /\ Live
    /\ Set(ToMark(Cur)) /\ Other("to_mark")
    /\ coff' = coff - (Next - eMark)
    /\ UNCHANGED nlOff

ii_mark_prev ==
    /\ Live
    /\ Set(MarkPrev(Cur)) /\ Other("mark_prev")
    /\ UNCHANGED <<coff, nlOff>>

ii_flush ==
    /\ Live
    /\ \E force \in BOOLEAN, k \in ReadSizes, dir \in Dirs :
         /\ Set(Flush(Cur, force, k, dir))
         /\ op' = (IF force THEN "flush1" ELSE "flush0")
         /\ arg' = (IF force THEN 1 ELSE 0)
         /\ IF force THEN Forced ELSE phase' = "idle"
    /\ advOnly' = FALSE /\ trace' = <<>> /\ pb' = NoPb /\ lex' = NoLex
    /\ snap' = NoSnap
    /\ UNCHANGED <<coff, nlOff>>

ii_pusback ==
    /\ Live
    /\ Lineno > 0 - MaxDrop
    /\ \E n \in 0..MaxPush :
         /\ Set(Pusback(Cur, n))
         /\ op' = "pusback" /\ arg' = n
         /\ coff' = coff - Moved(Cur, n)
         /\ pb' = IF n >= 1 /\ n <= Next - sMark
                  THEN [want |-> [j \in 1..n |-> buf[Next - n + j - 1]],
                        line |-> Lineno, i |-> 0]
                  ELSE NoPb
    /\ advOnly' = FALSE /\ trace' = <<>> /\ phase' = "idle" /\ lex' = NoLex
    /\ snap' = NoSnap
    /\ UNCHANGED nlOff

ii_look ==
    /\ Live
    /\ \E n \in 1..MAXLOOK :
         /\ Set(Look(Cur, n))
         /\ op' = "look" /\ arg' = n
    /\ advOnly' = FALSE /\ trace' = <<>> /\ pb' = NoPb /\ phase' = "idle"
    /\ lex' = NoLex /\ snap' = NoSnap
    /\ UNCHANGED <<coff, nlOff>>

ii_term ==
    /\ Live
    /\ Set(Term(Cur))
    /\ op' = "term" /\ advOnly' = FALSE /\ trace' = <<>>
    /\ pb' = NoPb /\ phase' = "idle" /\ arg' = 0 /\ lex' = NoLex
    /\ snap' = [stage |-> 1, buf |-> buf, Next |-> Next, sMark |-> sMark,
                eMark |-> eMark, pMark |-> pMark]
    /\ UNCHANGED <<coff, nlOff>>

ii_unterm ==
    /\ Live
    /\ Set(Unterm(Cur))
    /\ op' = "unterm" /\ advOnly' = FALSE /\ trace' = <<>>
    /\ pb' = NoPb /\ phase' = "idle" /\ arg' = 0 /\ lex' = NoLex
    /\ snap' = IF snap.stage \in {1, 2} THEN [snap EXCEPT !.stage = @ + 1]
               ELSE NoSnap
    /\ UNCHANGED <<coff, nlOff>>

ii_input ==
    /\ Live
    /\ \E k \in ReadSizes, dir \in Dirs, junk \in Junk :
         LET r == Input(Cur, k, dir, junk)
             c0 == IF been_called THEN coff ELSE coff - 1
         IN  /\ Set(r)
             /\ op' = "input" /\ arg' = 0
             /\ coff' = IF r.outcome = "byte" /\ r.status = "run"
                        THEN c0 + 1 ELSE c0
             /\ nlOff' = IF been_called THEN nlOff ELSE coff - 1
    /\ advOnly' = FALSE /\ trace' = <<>> /\ pb' = NoPb /\ phase' = "idle"
    /\ lex' = NoLex /\ snap' = NoSnap

ii_uninput ==
    /\ Live
    /\ Lineno > 0 - MaxDrop
    /\ \E c \in PushBytes, junk \in Junk :
         /\ Set(Uninput(Cur, c, junk))
         /\ op' = "uninput" /\ arg' = c
    /\ coff' = coff - Moved(Cur, 1)
    /\ advOnly' = FALSE /\ trace' = <<>> /\ pb' = NoPb /\ phase' = "idle"
    /\ lex' = NoLex /\ snap' = NoSnap
    /\ UNCHANGED nlOff

ii_flushbuf ==
    /\ Live
    /\ \E k \in ReadSizes, dir \in Dirs :
         /\ Set(Flushbuf(Cur, k, dir))
         /\ op' = "flushbuf" /\ arg' = 0 /\ Forced
    /\ advOnly' = FALSE /\ trace' = <<>> /\ pb' = NoPb /\ lex' = NoLex
    /\ snap' = NoSnap
    /\ UNCHANGED <<coff, nlOff>>

ii_newfile ==
    /\ Live
    /\ \E how \in {"null", "ok", "fail"} :
         LET r == Newfile(Cur, how)
         IN  /\ Set(r) /\ Other("newfile")
             /\ coff' = IF r.rv # 0 - 1 THEN Pos(r) ELSE coff
             /\ nlOff' = IF r.rv # 0 - 1 THEN NoNl ELSE nlOff

\* The scanner's calls: NextCore on one stream, NextStep with ii_newfile,
\* NextTerm the calls that move Next or the buffer together with the
\* '\0'-termination of the lexeme.
NextCore ==
    \/ ii_advance \/ ii_mark_start \/ ii_mark_end \/ ii_move_start
    \/ ii_to_mark \/ ii_mark_prev \/ ii_flush \/ ii_pusback

NextStep == NextCore \/ ii_newfile

NextTerm ==
    \/ ii_advance \/ ii_pusback \/ ii_to_mark \/ ii_flush \/ ii_newfile
    \/ ii_term \/ ii_unterm \/ ii_flushbuf

\* a scanner that never calls ii_mark_prev
NextNoPrev ==
    \/ ii_advance \/ ii_mark_start \/ ii_mark_end \/ ii_move_start
    \/ ii_to_mark \/ ii_flush \/ ii_pusback

\* a scanner that reads lexemes as '\0'-terminated strings
NextString ==
    \/ ii_advance \/ ii_mark_start \/ ii_mark_end \/ ii_pusback
    \/ ii_term \/ ii_unterm

\* a scanner that reads and pushes back through the '\0'-aware calls
NextWrap ==
    \/ ii_advance \/ ii_mark_start \/ ii_mark_end \/ ii_term
    \/ ii_input \/ ii_uninput

\* a scanner that marks lexemes, reads and flushes, and nothing else
NextFlush == ii_advance \/ ii_mark_start \/ ii_mark_prev \/ ii_flush

\* a scanner that goes from file to file
NextFile ==
    \/ ii_advance \/ ii_mark_start \/ ii_mark_prev \/ ii_pusback
    \/ ii_term \/ ii_newfile

\* a scanner that looks ahead as well
NextLook == NextCore \/ ii_look

SpecCore == Init /\ [][NextCore]_vars
SpecNoPrev == Init /\ [][NextNoPrev]_vars
Spec     == Init /\ [][NextStep]_vars
SpecTerm == Init /\ [][NextTerm]_vars
SpecLook == Init /\ [][NextLook]_vars
SpecString == Init /\ [][NextString]_vars
SpecWrap == Init /\ [][NextWrap]_vars
SpecFile == Init /\ [][NextFile]_vars
SpecFlush == InitLong /\ [][NextFlush]_vars

\* ================================================================ claims

\* What an advance-only run on the first stream is to return at its i-th
\* call: the pushed newline, the bytes of the stream, then 0.
Expected(i) ==
    IF i = 1 THEN NL
    ELSE IF i - 2 < stdinLen THEN StdinData(i - 2) ELSE 0

\* C1: on the first stream, advance calls with no other call in between
\* return the pushed newline, then the bytes of the stream in order, then 0
\* on every later call; the line number is 1 once the newline is consumed.
C1_AdvanceOnlyRun ==
    advOnly =>
        /\ \A i \in 1..Len(trace) : trace[i] = Expected(i)
        /\ (Len(trace) = 1 => Lineno = 1)

\* C2: every byte that ii_advance returns is the byte of the stream at the
\* logical offset the cursor had, whatever calls and reads came before.
C2_AdvanceReturnsStreamByte ==
    (op = "advance" /\ outcome = "byte")
        => ret = Logical(Input_file, nlOff, coff - 1)

\* The state a flush inside this step starts from: ii_advance pushes its
\* newline first.
Before == IF ~been_called /\ op' = "advance" THEN Seed(Cur) ELSE Cur

\* C3: a compaction keeps every byte of [left edge, End_buf), at the same
\* distance from the rebased Next; only a forced compaction with no pMark
\* set discards more, and then nothing at or right of the start mark it
\* ends with.
C3_FlushKeepsBytes ==
    [][ (did' # "none" /\ status' = "run") =>
          LET b == Before
              forcedNoPrev == op' = "flush1" /\ b.pMark = NULL
              from == IF forcedNoPrev /\ did' = "reset" THEN b.Next
                      ELSE LeftEdge(b)
              flushed == IF op' = "advance" /\ outcome' = "byte"
                         THEN Next' - 1 ELSE Next'
              shift == b.Next - flushed
          IN  \A i \in from..(b.End_buf - 1) :
                 /\ i - shift >= 0
                 /\ buf'[i - shift] = b.buf[i] ]_vars

\* C4: once the source has returned zero bytes (Eof_read), the component
\* keeps operating: the fatal path is not taken.
C4_EofKeepsOperating == Eof_read => status = "run"

\* C5: 0 <= sMark <= eMark <= Next <= End_buf <= BUFSIZE in every state the
\* calls reach; a refused ii_move_start finds sMark >= eMark and one that is
\* not refused returns the moved sMark, still <= eMark.
Ordered ==
    /\ 0 <= sMark /\ sMark <= eMark /\ eMark <= Next
    /\ Next <= End_buf /\ End_buf <= BUFSIZE

C5_MarksOrdered ==
    /\ status = "run" => Ordered
    /\ (op = "move_start" /\ ret = NULL) => sMark >= eMark
    /\ (op = "move_start" /\ ret # NULL) => (ret = sMark /\ sMark <= eMark)

\* C6: ii_pusback(k) with k <= Next - sMark, then k calls of ii_advance:
\* each returns the byte that was crossed, in order, and the last leaves
\* Lineno as it was before the pushback.
C6_PushbackThenAdvance ==
    (op = "advance" /\ pb.i >= 1) =>
        /\ outcome = "byte"
        /\ ret = pb.want[pb.i]
        /\ (pb.i = Len(pb.want) => Lineno = pb.line)

\* C7: ii_pusback(n) moves Next back by min(n, Next - sMark), never past
\* sMark, and returns 0 exactly when n exceeded Next - sMark, else 1.
C7_PushbackResult ==
    [][ op' = "pusback" =>
          LET d == Next - sMark
          IN  /\ Next' = Next - Min(arg', d)
              /\ Next' >= sMark'
              /\ ret' = (IF arg' > d THEN 0 ELSE 1) ]_vars

\* C8: after ii_advance returned -1 with bytes left in the source, a forced
\* flush goes through and the ii_advance after it returns the next byte of
\* the stream.
C8_ForcedFlushRecovers ==
    /\ phase = "forced" => status = "run"
    /\ phase = "retried" =>
          /\ outcome = "byte"
          /\ ret = Logical(Input_file, nlOff, coff - 1)

\* C9: while the scanner never calls ii_mark_prev, pMark stays unset, so a
\* refused flush is one whose sMark is less than MAXLEN from the start.
C9_PrevMarkUnset ==
    /\ pMark = NULL
    /\ (op = "advance" /\ outcome = "refused") => sMark < MAXLEN

\* C10: a successful ii_newfile leaves Lineno = 1, Eof_read false, Next,
\* sMark, eMark and End_buf at END, pMark unset and no saved terminator.
C10_NewfileResets ==
    (op = "newfile" /\ ret # 0 - 1) =>
        /\ Lineno = 1 /\ ~Eof_read
        /\ Next = END /\ sMark = END /\ eMark = END /\ End_buf = END
        /\ pMark = NULL /\ Termchar = 0

\* C11: an ii_newfile whose open() fails returns -1 and leaves the handle,
\* Next, the marks, End_buf, Lineno, Eof_read and the buffer as they were,
\* closing nothing; and no ii_newfile ever passes STDIN to close().
C11_FailedNewfileKeepsAll ==
    [][ op' = "newfile" =>
          /\ STDIN \notin closed'
          /\ ret' = 0 - 1 =>
                UNCHANGED <<buf, End_buf, Next, sMark, eMark, pMark, pLineno,
                            pLength, Input_file, Lineno, Mline, Termchar,
                            Eof_read, been_called, stdinPos, filePos,
                            closed, status>> ]_vars

\* a failed open while the second file is being read, the first one closed
C11_Witness ==
    /\ op = "newfile" /\ ret = 0 - 1
    /\ Input_file = FILEFD2 /\ closed = {FILEFD}
    /\ Next < End_buf /\ filePos > 0

\* C12: ii_look(1) changes no state; with Eof_read and Next = End_buf it
\* returns EOF, and in every other state with Next < End_buf it returns
\* what the ii_advance that follows it returns.
C12_LookIsNextAdvance ==
    [][ /\ op' = "look" =>
            /\ UNCHANGED <<buf, End_buf, Next, sMark, eMark, pMark, pLineno,
                           pLength, Input_file, Lineno, Mline, Termchar,
                           Eof_read, been_called, stdinPos, filePos,
                           closed, status>>
            /\ (arg' = 1 /\ Eof_read /\ Next = End_buf) => ret' = EOF
        /\ (op = "look" /\ arg = 1 /\ Next < End_buf /\ op' = "advance")
              => ret' = ret ]_vars

\* C13: ii_mark_start, N calls of ii_advance and ii_mark_end, with at least
\* N bytes left to read at the start and N at most BUFSIZE - MAXLOOK, leave
\* a lexeme of length eMark - sMark = N.
C13_LexemeLength ==
    (op = "mark_end" /\ lex.n >= 0 /\ lex.n <= lex.left
        /\ lex.n <= BUFSIZE - MAXLOOK)
      => eMark - sMark = lex.n

\* C14: ii_term on a byte of Start_buf, whatever its value, leaves 0 at Next;
\* the ii_unterm that follows it leaves the buffer, Next and the marks as
\* they were before ii_term; one more ii_unterm changes nothing.
C14_TermUntermRoundTrip ==
    [][ /\ (op' = "term" /\ status' = "run") => buf'[Next'] = 0
        /\ (snap'.stage = 2 /\ status' = "run") =>
              /\ buf' = snap'.buf /\ Next' = snap'.Next
              /\ sMark' = snap'.sMark /\ eMark' = snap'.eMark
              /\ pMark' = snap'.pMark
        /\ (snap.stage = 2 /\ op' = "unterm") =>
              UNCHANGED <<buf, End_buf, Next, sMark, eMark, pMark, pLineno,
                          pLength, Input_file, Lineno, Mline, Termchar,
                          Eof_read, been_called, stdinPos, filePos,
                          closed, status>> ]_vars

\* ii_term on a byte that is not 0, inside a lexeme, then two ii_unterm
C14_Witness ==
    /\ snap.stage = 3 /\ status = "run"
    /\ snap.buf[Next] # 0 /\ buf[Next] = snap.buf[Next]
    /\ sMark < Next /\ Next < End_buf

\* The newline bytes of the stream to the left of the byte at Next,
\* the pushed newline included.
NewlinesLeft ==
    Cardinality({o \in Min(nlOff, 0)..(coff - 1) :
                    o >= nlOff /\ Logical(Input_file, nlOff, o) = NL})

\* C15: on the first stream, once its newline is pushed, Lineno is the
\* number of newline bytes to the left of Next, whatever ii_advance,
\* ii_pusback, ii_to_mark, mark and ii_flush calls came before; so a byte
\* pushed back and read again leaves Lineno as it was, and ii_to_mark
\* brings back the Lineno that held at eMark.
C15_LinenoCountsNewlines ==
    (been_called /\ status = "run") => Lineno = NewlinesLeft

\* C16: a forced flush that finds less than MAXLEN bytes to free left of
\* min(sMark, pMark) and goes through ends with sMark, eMark and Next at
\* the start of the buffer and with no pMark set.
C16_ForcedResetDropsPrev ==
    (did = "reset" /\ status = "run") =>
        /\ Next = 0 /\ sMark = 0 /\ eMark = 0
        /\ pMark = NULL

\* C17: whatever ii_term, ii_unterm, ii_advance, ii_pusback, ii_to_mark,
\* ii_flush and ii_newfile calls came before, a saved Termchar means that
\* the byte at Next is a '\0' put there by ii_term and that Termchar is the
\* byte of the stream it replaced.
C17_TermcharMeansTerminated ==
    (status = "run" /\ Termchar # 0) =>
        /\ Next < BUFSIZE /\ buf[Next] = 0
        /\ Logical(Input_file, nlOff, coff) = Termchar

\* C18: ii_input and ii_uninput called with a terminator saved: when they
\* return, eMark = Next and the byte at Next is '\0'; the byte at the Next
\* they left is the one that was saved; after ii_input with no compaction
\* Termchar is the byte that was at the new Next, after ii_uninput(c) it
\* is c.
C18_WrappersKeepTerminator ==
    [][ ((op' = "input" \/ op' = "uninput") /\ Termchar # 0
           /\ status' = "run") =>
          /\ eMark' = Next'
          /\ Next' < BUFSIZE /\ buf'[Next'] = 0
          /\ (op' = "input" /\ outcome' = "byte") =>
                 /\ buf'[Next' - 1] = Termchar
                 /\ did' = "none" => Termchar' = buf[Next']
          /\ (op' = "uninput" /\ Next' = Next - 1) =>
                 /\ buf'[Next] = Termchar
                 /\ Termchar' = arg' ]_vars

\* C19: whenever ii_term is called, Next < End_buf <= BUFSIZE: the byte it
\* overwrites is in Start_buf and in the part of it that holds input; so
\* before the first ii_advance and right after ii_newfile as well.
C19_TermWritesInside ==
    [][ op' = "term" => (Next < End_buf /\ End_buf <= BUFSIZE) ]_vars

\* C20: a compaction that did not go through the forced reset of the marks
\* (shift_amount >= MAXLEN) keeps at most BUFSIZE - MAXLEN bytes, and the
\* read request of ii_fillbuf is then a multiple of MAXLEN, at least MAXLEN,
\* that ends inside the buffer; a request of 0 bytes comes only from a
\* forced flush that reset the marks.
C20_CompactionLeavesRoom ==
    /\ did = "compact" =>
          /\ lastCopy <= BUFSIZE - MAXLEN
          /\ lastNeed # NoNeed =>
                /\ lastNeed % MAXLEN = 0 /\ lastNeed >= MAXLEN
                /\ lastCopy + lastNeed <= BUFSIZE
    /\ lastNeed = 0 => (did = "reset" /\ (op = "flush1" \/ op = "flushbuf"))

\* a compaction that keeps a lexeme and a mark before it and reads one unit
C20_Witness ==
    /\ did = "compact" /\ status = "run"
    /\ lastCopy > MAXLEN /\ lastNeed = MAXLEN

====
